---- MODULE Spec2Model ----
(***************************************************************************)
(* Model of id2.py, the "Fever Follow-up Tool": a Streamlit application    *)
(* over an SQLite database with three tables (hospitals, patients,         *)
(* entries), a per-session login flag, and the risk rule calculate_risk.   *)
(*                                                                         *)
(* Text is modelled as a sequence of characters, each character a string   *)
(* of length one (two named tokens stand for the non-ASCII code points     *)
(* U+0130 and U+0307).  A temperature is an integer number of hundredths   *)
(* of a degree Fahrenheit, the step of the temperature input: 98.6 is      *)
(* 9860, 100.4 is 10040, 102 is 10200.  A created_at timestamp is          *)
(* modelled by its rank among the rows of its table: the clock does not    *)
(* go back, and ORDER BY created_at, the only reader, compares the rows    *)
(* of one table.                                                           *)
(***************************************************************************)
EXTENDS Integers, Sequences, FiniteSets, TLC

VARIABLES
    hospitals,      \* table hospitals: sequence of rows, in insertion order
    patients,       \* table patients
    entries,        \* table entries
    login_success,  \* st.session_state['login_success'], one per session
    rendered,       \* what the last script run put on the page
    alerted,        \* entry ids for which a HIGH RISK ALERT was shown at submit
    arg_temp,       \* calculate_risk called on its own: the argument temp
    arg_symptoms,   \*   the argument symptoms
    ret_risk        \*   the value returned ("none" before the call)

vars == <<hospitals, patients, entries, login_success, rendered, alerted,
          arg_temp, arg_symptoms, ret_risk>>

app_vars == <<hospitals, patients, entries, login_success, rendered, alerted>>

risk_vars == <<arg_temp, arg_symptoms, ret_risk>>

-----------------------------------------------------------------------------
(* Text *)

UpperChars == <<"A","B","C","D","E","F","G","H","I","J","K","L","M","N","O","P","Q","R","S","T","U","V","W","X","Y","Z">>

LowerChars == <<"a","b","c","d","e","f","g","h","i","j","k","l","m","n","o","p","q","r","s","t","u","v","w","x","y","z">>

\* U+0130, LATIN CAPITAL LETTER I WITH DOT ABOVE, and U+0307, COMBINING DOT ABOVE
I_U0130 == "U+0130"

U0307 == "U+0307"

IsUpper(ch) == \E k \in 1..26 : UpperChars[k] = ch

\* str.lower() on one character: the lowercase of an ASCII capital, "i" followed
\* by U+0307 for U+0130 (the one character whose lowercase is two code points),
\* the character itself otherwise.
lower_char(ch) ==
    IF IsUpper(ch) THEN <<LowerChars[CHOOSE k \in 1..26 : UpperChars[k] = ch]>>
    ELSE IF ch = I_U0130 THEN <<"i", U0307>>
    ELSE <<ch>>

\* The mutant of str_lower: the text compared as typed.
str_lower_missing(s) == s

\* str.lower()
RECURSIVE str_lower(_)
str_lower(s) ==
    IF s = <<>> THEN <<>> ELSE lower_char(Head(s)) \o str_lower(Tail(s))

\* Python's `needle in hay` on strings
str_in(needle, hay) ==
    \E i \in 0..(Len(hay) - Len(needle)) :
        SubSeq(hay, i + 1, i + Len(needle)) = needle

-----------------------------------------------------------------------------
(* Risk scoring *)

\* 102 and 100.4 degrees Fahrenheit, in hundredths
HighTemp == 10200

MediumTemp == 10040

\* The bounds of the temperature input, 90.0 and 110.0, in hundredths
MinTemp == 9000

MaxTemp == 11000

DifficultyBreathing == <<"d","i","f","f","i","c","u","l","t","y"," ","b","r","e","a","t","h","i","n","g">>

ChestPain == <<"c","h","e","s","t"," ","p","a","i","n">>

PersistentHighFever == <<"p","e","r","s","i","s","t","e","n","t"," ","h","i","g","h"," ","f","e","v","e","r">>

HighRiskKeywords == {DifficultyBreathing, ChestPain, PersistentHighFever}

\* Mutants of calculate_risk: the High threshold exclusive; the Medium threshold
\* exclusive.
calculate_risk_gt102(temp, symptoms) ==
    IF temp > HighTemp
       \/ \E cs \in HighRiskKeywords : str_in(cs, str_lower(symptoms))
    THEN "High"
    ELSE IF temp >= MediumTemp THEN "Medium"
    ELSE "Low"

calculate_risk_gt1004(temp, symptoms) ==
    IF temp >= HighTemp
       \/ \E cs \in HighRiskKeywords : str_in(cs, str_lower(symptoms))
    THEN "High"
    ELSE IF temp > MediumTemp THEN "Medium"
    ELSE "Low"

calculate_risk(temp, symptoms) ==
    IF temp >= HighTemp
       \/ \E cs \in HighRiskKeywords : str_in(cs, str_lower(symptoms))
    THEN "High"
    ELSE IF temp >= MediumTemp THEN "Medium"
    ELSE "Low"

-----------------------------------------------------------------------------
(* Inputs of the risk rule *)

\* Temperatures around each threshold are taken at every hundredth within
\* Window of it; the rest of a range wider than the input's at every degree.
Window == 3

\* The longest text put before and after a symptom text
MaxPad == 1

RiskTemps ==
    {t \in (MinTemp - 100)..(MaxTemp + 100) : t % 100 = 0}
    \cup ((MediumTemp - Window)..(MediumTemp + Window))
    \cup ((HighTemp - Window)..(HighTemp + Window))

upper_char(ch) ==
    IF \E k \in 1..26 : LowerChars[k] = ch
    THEN UpperChars[CHOOSE k \in 1..26 : LowerChars[k] = ch]
    ELSE ch

\* A text put in capitals: not at all (form 0), throughout (-1), every other
\* character (-2), or at position form only.
Cased(s, form) ==
    [i \in 1..Len(s) |->
        IF form = -1 \/ (form = -2 /\ i % 2 = 1) \/ form = i
        THEN upper_char(s[i]) ELSE s[i]]

\* Texts that hold no keyword: the empty text, other symptoms, and keywords with
\* a character missing, doubled, or replaced by U+0130.
OtherTexts ==
    { <<>>,
      <<"c","o","u","g","h">>,
      <<"c","h","e","s","t","p","a","i","n">>,
      <<"c","h","e","s","t"," "," ","p","a","i","n">>,
      <<"c","h","e","s","t"," ","p","a","i">>,
      <<"h","i","g","h"," ","f","e","v","e","r">>,
      <<"C","H","E","S","T"," ","P","A",I_U0130,"N">>,
      <<"h","e","s","t"," ","p","a","i","n">> }

Pads == UNION {[1..n -> {"x"}] : n \in 0..MaxPad}

RiskTexts ==
    { pre \o body \o post :
        pre \in Pads, post \in Pads,
        body \in UNION {{Cased(kw, f) : f \in -2..Len(kw)} : kw \in HighRiskKeywords}
                 \cup OtherTexts }

-----------------------------------------------------------------------------
(* Database and authentication *)

Sessions == {"s1", "s2"}

\* The most rows of table hospitals, and of tables patients and entries together
MaxAccounts == 3

MaxRows == 4

DefaultUser == <<"h","o","s","p","i","t","a","l","1">>

DefaultPass == <<"p","a","s","s","1","2","3">>

\* `username TEXT UNIQUE` refuses an INSERT: some row has this username
\* (compared byte for byte, the column's BINARY collation).
\* Mutant: the column declared COLLATE NOCASE.
unique_violation_nocase(username) ==
    \E i \in DOMAIN hospitals : str_lower(hospitals[i].username) = str_lower(username)

unique_violation(username) ==
    \E i \in DOMAIN hospitals : hospitals[i].username = username

\* login: SELECT ... WHERE username=? AND password=?, a row was fetched.
\* Mutant: the password is not compared.
login_username_only(username, password) ==
    \E i \in DOMAIN hospitals : hospitals[i].username = username

login(username, password) ==
    \E i \in DOMAIN hospitals :
        /\ hospitals[i].username = username
        /\ hospitals[i].password = password

\* register: the value returned and the table after it.
\* Mutant: INSERT OR REPLACE, the row of that username is rewritten.
register_or_replace(username, password) ==
    IF unique_violation(username)
    THEN [ok |-> TRUE,
          hospitals |-> [i \in DOMAIN hospitals |->
              IF hospitals[i].username = username
              THEN [hospitals[i] EXCEPT !.password = password]
              ELSE hospitals[i]]]
    ELSE [ok |-> TRUE,
          hospitals |-> Append(hospitals,
              [hospital_id |-> Len(hospitals) + 1,
               username |-> username, password |-> password])]

register(username, password) ==
    IF unique_violation(username)
    THEN [ok |-> FALSE, hospitals |-> hospitals]
    ELSE [ok |-> TRUE,
          hospitals |-> Append(hospitals,
              [hospital_id |-> Len(hospitals) + 1,
               username |-> username, password |-> password])]

-----------------------------------------------------------------------------
(* Pages *)

NoTable == [columns |-> <<>>, rows |-> <<>>]

\* What a script run of `session` rendered: the page, the button that was
\* clicked and the text typed in the page's inputs, the message, the patient
\* selected (0: none), the table shown, the file behind the download button,
\* the metrics, the risk reported.
Page(session, page) ==
    [session |-> session, page |-> page, clicked |-> "", inputs |-> <<>>,
     msg |-> "", patient_id |-> 0, table |-> NoTable, csv |-> NoTable,
     metrics |-> <<>>, risk |-> "none"]

AuthPages == {"Patient Registration", "Symptom Check-in", "Patient Timeline",
              "Overview", "Alert Dashboard"}

\* main: the branch taken, `st.session_state['login_success']` of this session.
\* Mutant: one flag for the whole process.
authenticated_global(s) == \E t \in Sessions : login_success[t]

authenticated(s) == login_success[s]

\* The options of the 'Select Patient' box: the ids of the patients table.
\* Mutant: any id may be entered.
patient_options_any == 1..MaxRows

patient_options == {patients[i].patient_id : i \in DOMAIN patients}

\* The columns of table entries, in the order of CREATE TABLE
EntriesColumns == <<"entry_id", "patient_id", "temp", "symptoms", "notes", "created_at">>

\* df[columns]: the row's cells in the order of `columns`
Project(row, columns) == [k \in DOMAIN columns |-> row[columns[k]]]

\* ORDER BY created_at over a set of rows: any order of the rows in which
\* created_at does not decrease; rows of equal created_at come in any order.
OrderByCreatedAt(rows) ==
    {q \in [1..Cardinality(rows) -> rows] :
        /\ \A i, j \in DOMAIN q : i # j => q[i] # q[j]
        /\ \A i, j \in DOMAIN q : i < j => q[i].created_at <= q[j].created_at}

Reverse(q) == [i \in DOMAIN q |-> q[Len(q) + 1 - i]]

\* SELECT * FROM entries WHERE patient_id=?
\* Mutant: the WHERE clause left out.
entries_where_missing(patient_id) == {entries[i] : i \in DOMAIN entries}

entries_where(patient_id) ==
    {entries[i] : i \in {j \in DOMAIN entries : entries[j].patient_id = patient_id}}

\* SELECT e.*, p.name FROM entries e JOIN patients p ON e.patient_id=p.patient_id
entries_join_patients ==
    {[entry_id |-> entries[i].entry_id, patient_id |-> entries[i].patient_id,
      temp |-> entries[i].temp, symptoms |-> entries[i].symptoms,
      notes |-> entries[i].notes, created_at |-> entries[i].created_at,
      name |-> patients[j].name] :
        <<i, j>> \in {ij \in (DOMAIN entries) \X (DOMAIN patients) :
                        entries[ij[1]].patient_id = patients[ij[2]].patient_id}}

\* entries_df['risk'] = entries_df.apply(calculate_risk ...)
with_risk(row) ==
    [entry_id |-> row.entry_id, patient_id |-> row.patient_id, temp |-> row.temp,
     symptoms |-> row.symptoms, notes |-> row.notes, created_at |-> row.created_at,
     name |-> row.name, risk |-> calculate_risk(row.temp, row.symptoms)]

\* entries_df[entries_df['risk']=='High']
\* Mutant: the filter keeps every row with a fever.
high_risk_filter_not_low(rows) == {r \in rows : r.risk # "Low"}

high_risk_filter(rows) == {r \in rows : r.risk = "High"}

TimelineColumns == <<"created_at", "temp", "symptoms", "notes">>

AlertColumns == <<"created_at", "name", "temp", "symptoms", "risk">>

\* entries_df.to_csv(index=False): a header of the frame's columns and one
\* record per row of the frame.
to_csv(frame) ==
    [columns |-> EntriesColumns,
     rows |-> [k \in DOMAIN frame |-> Project(frame[k], EntriesColumns)]]

-----------------------------------------------------------------------------
(* Script runs.  Each action is one run of main() for session s. *)

\* login_page, option Login, the Login button clicked
LoginClick(s, username_input, password_input) ==
    /\ ~authenticated(s)
    /\ IF login(username_input, password_input)
       THEN /\ login_success' = [login_success EXCEPT ![s] = TRUE]
            /\ rendered' = [Page(s, "Login") EXCEPT
                                !.clicked = "login_btn",
                                !.inputs = <<username_input, password_input>>]
       ELSE /\ login_success' = login_success
            /\ rendered' = [Page(s, "Login") EXCEPT
                                !.clicked = "login_btn",
                                !.inputs = <<username_input, password_input>>,
                                !.msg = "Invalid credentials"]
    /\ UNCHANGED <<hospitals, patients, entries, alerted, risk_vars>>

\* login_page, option Register, the Register button clicked
RegisterClick(s, new_username, new_password) ==
    /\ ~authenticated(s)
    /\ unique_violation(new_username) \/ Len(hospitals) < MaxAccounts
    /\ LET r == register(new_username, new_password) IN
        /\ hospitals' = r.hospitals
        /\ rendered' = [Page(s, "Login") EXCEPT
                            !.clicked = "reg_btn",
                            !.inputs = <<new_username, new_password>>,
                            !.msg = IF r.ok THEN "registered successfully"
                                    ELSE "Username already exists"]
    /\ UNCHANGED <<patients, entries, login_success, alerted, risk_vars>>

\* login_page, option Register, the Go Back button clicked
GoBack(s) ==
    /\ ~authenticated(s)
    /\ login_success' = [login_success EXCEPT ![s] = FALSE]
    /\ rendered' = [Page(s, "Login") EXCEPT !.clicked = "go_back_btn"]
    /\ UNCHANGED <<hospitals, patients, entries, alerted, risk_vars>>

\* patient_registration, the form shown
PatientRegistrationPage(s) ==
    /\ authenticated(s)
    /\ rendered' = Page(s, "Patient Registration")
    /\ UNCHANGED <<hospitals, patients, entries, login_success, alerted, risk_vars>>

\* patient_registration, the form submitted
PatientRegistrationSubmit(s, name, age, gender) ==
    /\ authenticated(s)
    /\ Len(patients) + Len(entries) < MaxRows
    /\ patients' = Append(patients,
          [patient_id |-> Len(patients) + 1, name |-> name, age |-> age,
           gender |-> gender, created_at |-> Len(patients) + 1])
    /\ rendered' = [Page(s, "Patient Registration") EXCEPT
                        !.clicked = "Submit", !.msg = "registered successfully"]
    /\ UNCHANGED <<hospitals, entries, login_success, alerted, risk_vars>>

\* symptom_checkin, the form shown (or the warning, with no patient)
SymptomCheckinPage(s) ==
    /\ authenticated(s)
    /\ rendered' = IF patients = <<>>
                   THEN [Page(s, "Symptom Check-in") EXCEPT !.msg = "No patients registered yet."]
                   ELSE Page(s, "Symptom Check-in")
    /\ UNCHANGED <<hospitals, patients, entries, login_success, alerted, risk_vars>>

\* symptom_checkin, the form submitted
SymptomCheckinSubmit(s, patient_id, temp_f, symptoms, notes) ==
    /\ authenticated(s)
    /\ patients # <<>>
    /\ patient_id \in patient_options
    /\ Len(patients) + Len(entries) < MaxRows
    /\ entries' = Append(entries,
          [entry_id |-> Len(entries) + 1, patient_id |-> patient_id,
           temp |-> temp_f, symptoms |-> symptoms, notes |-> notes,
           created_at |-> Len(entries) + 1])
    /\ LET risk == calculate_risk(temp_f, symptoms) IN
        /\ rendered' = [Page(s, "Symptom Check-in") EXCEPT
                            !.clicked = "Submit", !.patient_id = patient_id,
                            !.msg = IF risk = "High" THEN "HIGH RISK ALERT"
                                    ELSE "Symptom check-in submitted.",
                            !.risk = risk]
        /\ alerted' = IF risk = "High" THEN alerted \cup {Len(entries) + 1} ELSE alerted
    /\ UNCHANGED <<hospitals, patients, login_success, risk_vars>>

\* patient_timeline
PatientTimeline(s) ==
    /\ authenticated(s)
    /\ IF patients = <<>>
       THEN rendered' = [Page(s, "Patient Timeline") EXCEPT !.msg = "No patients registered yet."]
       ELSE \E patient_id \in patient_options :
            \E entries_df \in OrderByCreatedAt(entries_where(patient_id)) :
               rendered' =
                 IF entries_df = <<>>
                 THEN [Page(s, "Patient Timeline") EXCEPT
                          !.msg = "No check-ins yet for this patient.",
                          !.patient_id = patient_id]
                 ELSE [Page(s, "Patient Timeline") EXCEPT
                          !.table = [columns |-> TimelineColumns,
                                     rows |-> [k \in DOMAIN entries_df |->
                                                 Project(entries_df[k], TimelineColumns)]],
                          !.csv = to_csv(entries_df),
                          !.patient_id = patient_id]
    /\ UNCHANGED <<hospitals, patients, entries, login_success, alerted, risk_vars>>

\* alert_dashboard
AlertDashboard(s) ==
    /\ authenticated(s)
    /\ \E joined \in OrderByCreatedAt(entries_join_patients) :
        LET entries_df == Reverse(joined)
            high_risk == high_risk_filter({with_risk(entries_df[k]) : k \in DOMAIN entries_df})
            high_risk_df == SelectSeq([k \in DOMAIN entries_df |-> with_risk(entries_df[k])],
                                      LAMBDA r : r \in high_risk)
        IN rendered' =
             IF entries_df = <<>>
             THEN [Page(s, "Alert Dashboard") EXCEPT !.msg = "No check-ins submitted yet."]
             ELSE IF high_risk_df = <<>>
             THEN [Page(s, "Alert Dashboard") EXCEPT !.msg = "No high-risk patients currently."]
             ELSE [Page(s, "Alert Dashboard") EXCEPT
                      !.table = [columns |-> AlertColumns,
                                 rows |-> [k \in DOMAIN high_risk_df |->
                                             Project(high_risk_df[k], AlertColumns)]]]
    /\ UNCHANGED <<hospitals, patients, entries, login_success, alerted, risk_vars>>

\* overview
Overview(s) ==
    /\ authenticated(s)
    /\ rendered' = [Page(s, "Overview") EXCEPT !.metrics = <<Len(patients), Len(entries)>>]
    /\ UNCHANGED <<hospitals, patients, entries, login_success, alerted, risk_vars>>

\* main, choice Logout
Logout(s) ==
    /\ authenticated(s)
    /\ login_success' = [login_success EXCEPT ![s] = FALSE]
    /\ rendered' = Page(s, "Logout")
    /\ UNCHANGED <<hospitals, patients, entries, alerted, risk_vars>>

-----------------------------------------------------------------------------
(* Inputs of the forms *)

Hospital1Capital == <<"H","o","s","p","i","t","a","l","1">>

Clinic == <<"c","l","i","n","i","c">>

Pass123Capital == <<"P","a","s","s","1","2","3">>

Pw == <<"p","w">>

PatientForms == { [name |-> "Alice", age |-> 30, gender |-> "Female"] }

CheckinForms ==
    { [temp_f |-> 10300, symptoms |-> <<"c","o","u","g","h">>, notes |-> ""],
      [temp_f |-> 9860, symptoms |-> <<"C","h","e","s","t"," ","P","a","i","n">>, notes |-> "rest"],
      [temp_f |-> 10100, symptoms |-> <<"c","o","u","g","h">>, notes |-> ""] }

\* The database as the module's top level leaves it when first run: the three
\* tables created, the default hospital inserted; no session logged in.
AppInit ==
    /\ hospitals = <<[hospital_id |-> 1, username |-> DefaultUser, password |-> DefaultPass]>>
    /\ patients = <<>>
    /\ entries = <<>>
    /\ login_success = [s \in Sessions |-> FALSE]
    /\ rendered = Page("none", "none")
    /\ alerted = {}

Init ==
    /\ AppInit
    /\ arg_temp = MinTemp
    /\ arg_symptoms = <<>>
    /\ ret_risk = "none"

\* The whole application, two sessions
Next ==
    \/ \E s \in Sessions, u \in {DefaultUser, Clinic}, p \in {DefaultPass, Pw} :
          LoginClick(s, u, p)
    \/ \E s \in Sessions, u \in {DefaultUser, Clinic} : RegisterClick(s, u, Pw)
    \/ \E s \in Sessions : GoBack(s)
    \/ \E s \in Sessions : PatientRegistrationPage(s)
    \/ \E s \in Sessions, f \in PatientForms :
          PatientRegistrationSubmit(s, f.name, f.age, f.gender)
    \/ \E s \in Sessions : SymptomCheckinPage(s)
    \/ \E s \in Sessions, patient_id \in 1..MaxRows, f \in CheckinForms :
          SymptomCheckinSubmit(s, patient_id, f.temp_f, f.symptoms, f.notes)
    \/ \E s \in Sessions : PatientTimeline(s)
    \/ \E s \in Sessions : AlertDashboard(s)
    \/ \E s \in Sessions : Overview(s)
    \/ \E s \in Sessions : Logout(s)

Spec == Init /\ [][Next]_vars

\* The login page on its own, with more usernames and passwords
AccountUsernames == {DefaultUser, Hospital1Capital, Clinic, <<>>}

AccountPasswords == {DefaultPass, Pass123Capital, Pw}

AccountNext ==
    \/ \E s \in Sessions, u \in AccountUsernames, p \in AccountPasswords :
          LoginClick(s, u, p)
    \/ \E s \in Sessions, u \in AccountUsernames, p \in AccountPasswords :
          RegisterClick(s, u, p)
    \/ \E s \in Sessions : GoBack(s)
    \/ \E s \in Sessions : Overview(s)
    \/ \E s \in Sessions : Logout(s)

AccountSpec == Init /\ [][AccountNext]_vars

\* calculate_risk on its own, over RiskTemps and RiskTexts
RiskInit ==
    /\ AppInit
    /\ arg_temp \in RiskTemps
    /\ arg_symptoms \in RiskTexts
    /\ ret_risk = "none"

\* a call of calculate_risk
CallCalculateRisk ==
    /\ ret_risk = "none"
    /\ ret_risk' = calculate_risk(arg_temp, arg_symptoms)
    /\ UNCHANGED <<arg_temp, arg_symptoms>>

RiskNext == CallCalculateRisk /\ UNCHANGED app_vars

RiskSpec == RiskInit /\ [][RiskNext]_vars

-----------------------------------------------------------------------------
(* Properties *)

\* The three keywords as the specification spells them
SpecKeywords ==
    { <<"d","i","f","f","i","c","u","l","t","y"," ","b","r","e","a","t","h","i","n","g">>,
      <<"c","h","e","s","t"," ","p","a","i","n">>,
      <<"p","e","r","s","i","s","t","e","n","t"," ","h","i","g","h"," ","f","e","v","e","r">> }

\* ch is the letter low, in either case
SameLetter(ch, low) ==
    ch = low \/ \E k \in 1..26 : LowerChars[k] = low /\ UpperChars[k] = ch

\* text holds keyword kw as a substring, in any letter case
HoldsAnyCase(text, kw) ==
    \E i \in 0..(Len(text) - Len(kw)) :
        \A j \in 1..Len(kw) : SameLetter(text[i + j], kw[j])

HoldsKeyword(text) == \E kw \in SpecKeywords : HoldsAnyCase(text, kw)

\* C1: for every temperature >= 102.0 and every symptom text, the empty text
\* included, calculate_risk returns High.
C1_HighFrom102 ==
    (ret_risk # "none" /\ arg_temp >= 10200) => ret_risk = "High"

\* calculate_risk has returned High at exactly 102.0 on the empty text
C1_Witness ==
    ret_risk = "High" /\ arg_temp = 10200 /\ arg_symptoms = <<>>

\* C2: for every symptom text that holds one of the three keywords in any
\* letter case, calculate_risk returns High at every temperature, below 100.4
\* and in [100.4, 102.0) included.
C2_HighOnKeyword ==
    (ret_risk # "none" /\ HoldsKeyword(arg_symptoms)) => ret_risk = "High"

\* calculate_risk has returned High below 100.4 on a text that holds a keyword
\* written with capitals, after other text
C2_Witness ==
    /\ ret_risk = "High"
    /\ arg_temp < 10040
    /\ HoldsKeyword(arg_symptoms)
    /\ \E i \in DOMAIN arg_symptoms : IsUpper(arg_symptoms[i])
    /\ arg_symptoms[1] = "x"

\* C3: for every symptom text that holds none of the three keywords in any
\* case, calculate_risk returns Medium exactly when 100.4 <= temperature < 102.0
\* and Low exactly when temperature < 100.4.
C3_MediumLowByTemperature ==
    (ret_risk # "none" /\ ~HoldsKeyword(arg_symptoms)) =>
        /\ ret_risk = "Medium" <=> (10040 <= arg_temp /\ arg_temp < 10200)
        /\ ret_risk = "Low" <=> arg_temp < 10040

\* calculate_risk has returned Medium at exactly 100.4 on a text that is a
\* keyword but for one character
C3_Witness ==
    /\ ret_risk = "Medium"
    /\ arg_temp = 10040
    /\ arg_symptoms = <<"c","h","e","s","t"," ","p","a","i">>

\* Some stored account has exactly this username
AccountExists(username) ==
    \E i \in DOMAIN hospitals :
        /\ Len(hospitals[i].username) = Len(username)
        /\ \A k \in DOMAIN username : hospitals[i].username[k] = username[k]

\* Some stored account has exactly this username and this password
AccountMatches(username, password) ==
    \E i \in DOMAIN hospitals :
        /\ Len(hospitals[i].username) = Len(username)
        /\ \A k \in DOMAIN username : hospitals[i].username[k] = username[k]
        /\ Len(hospitals[i].password) = Len(password)
        /\ \A k \in DOMAIN password : hospitals[i].password[k] = password[k]

\* C4: a registration reports failure if and only if an account of that
\* username exists already; a failed registration leaves the accounts as they
\* were, a successful one adds the account; and no two accounts ever share a
\* username.
C4_RegisterFailsIffExists ==
    [][ rendered'.clicked = "reg_btn" =>
          LET failed == rendered'.msg = "Username already exists" IN
          /\ failed <=> AccountExists(rendered'.inputs[1])
          /\ failed => hospitals' = hospitals
          /\ ~failed => /\ Len(hospitals') = Len(hospitals) + 1
                        /\ hospitals'[Len(hospitals')].username = rendered'.inputs[1]
                        /\ hospitals'[Len(hospitals')].password = rendered'.inputs[2]
          /\ \A i, j \in DOMAIN hospitals' :
                hospitals'[i].username = hospitals'[j].username => i = j
      ]_vars

\* A registration of a registered username, not the default one, with another
\* password has been refused
C4_Witness ==
    /\ rendered.clicked = "reg_btn"
    /\ rendered.msg = "Username already exists"
    /\ \E i \in DOMAIN hospitals :
        /\ i > 1
        /\ hospitals[i].username = rendered.inputs[1]
        /\ hospitals[i].password # rendered.inputs[2]

\* C5: a login succeeds if and only if some stored account has exactly the
\* username and the password typed, and a login leaves the accounts as they
\* were.
C5_LoginIffExactMatch ==
    [][ rendered'.clicked = "login_btn" =>
          /\ login_success'[rendered'.session]
                <=> AccountMatches(rendered'.inputs[1], rendered'.inputs[2])
          /\ rendered'.msg = "Invalid credentials"
                <=> ~AccountMatches(rendered'.inputs[1], rendered'.inputs[2])
          /\ ~login_success[rendered'.session]
          /\ hospitals' = hospitals
      ]_vars

\* A login with the username of one account and the password of another has
\* been refused, and so has one with a username that differs in case only
C5_Witness ==
    /\ rendered.clicked = "login_btn"
    /\ rendered.msg = "Invalid credentials"
    /\ ~login_success[rendered.session]
    /\ \/ \E i, j \in DOMAIN hospitals :
            /\ hospitals[i].username = rendered.inputs[1]
            /\ hospitals[j].password = rendered.inputs[2]
       \/ /\ rendered.inputs = <<Hospital1Capital, DefaultPass>>
          /\ ~AccountExists(Hospital1Capital)

\* C6: the patient reference of every stored check-in entry is the id of a
\* stored patient.
C6_EntryPatientExists ==
    \A i \in DOMAIN entries :
        \E j \in DOMAIN patients : patients[j].patient_id = entries[i].patient_id

\* Check-ins of two patients are stored
C6_Witness ==
    /\ Len(patients) >= 2
    /\ \E i, j \in DOMAIN entries : entries[i].patient_id # entries[j].patient_id

\* The stored entries whose risk, computed again, is High
HighEntries ==
    {i \in DOMAIN entries : calculate_risk(entries[i].temp, entries[i].symptoms) = "High"}

\* The row of the Alert Dashboard for a stored entry
AlertRow(e) ==
    <<e.created_at,
      patients[CHOOSE j \in DOMAIN patients : patients[j].patient_id = e.patient_id].name,
      e.temp, e.symptoms, "High">>

\* C7: the high-risk list of the Alert Dashboard holds exactly the stored
\* entries whose risk, computed again, is High: each of them once, every
\* check-in that was reported High when submitted among them, and no other row.
C7_AlertsAreHighEntries ==
    /\ \A id \in alerted : \E i \in HighEntries : entries[i].entry_id = id
    /\ rendered.page = "Alert Dashboard" =>
        /\ Len(rendered.table.rows) = Cardinality(HighEntries)
        /\ \A i \in HighEntries :
              \E k \in DOMAIN rendered.table.rows :
                  rendered.table.rows[k] = AlertRow(entries[i])
        /\ \A k \in DOMAIN rendered.table.rows :
              \E i \in HighEntries : rendered.table.rows[k] = AlertRow(entries[i])

\* The Alert Dashboard lists the check-in of 103.0 and "cough", reported High
\* when submitted, and leaves out a stored Medium entry
C7_Witness ==
    /\ rendered.page = "Alert Dashboard"
    /\ \E i \in DOMAIN entries :
        /\ entries[i].temp = 10300
        /\ entries[i].symptoms = <<"c","o","u","g","h">>
        /\ entries[i].entry_id \in alerted
        /\ \E k \in DOMAIN rendered.table.rows :
              rendered.table.rows[k] = AlertRow(entries[i])
    /\ \E i \in DOMAIN entries : i \notin HighEntries
    /\ Len(rendered.table.rows) < Len(entries)

\* The stored entries of the patient selected on the page
SelectedEntries == {i \in DOMAIN entries : entries[i].patient_id = rendered.patient_id}

\* C8 as stated: the CSV export has exactly the columns timestamp, temperature,
\* symptoms, notes (created_at, temp, symptoms, notes in the table), and one
\* row per stored entry of the selected patient.
C8_CsvFourColumns ==
    (rendered.page = "Patient Timeline" /\ rendered.csv # NoTable) =>
        /\ rendered.csv.columns = <<"created_at", "temp", "symptoms", "notes">>
        /\ Len(rendered.csv.rows) = Cardinality(SelectedEntries)

\* C8, amended: the CSV export has the six columns of table entries,
\* entry_id, patient_id, temp, symptoms, notes, created_at (the table on the
\* page has the four columns created_at, temp, symptoms, notes), with one row
\* per stored entry of the selected patient and no row of another patient; it
\* is offered when the selected patient has an entry.
C8_CsvAllColumns ==
    rendered.page = "Patient Timeline" =>
        /\ rendered.csv # NoTable <=> (patients # <<>> /\ SelectedEntries # {})
        /\ rendered.csv # NoTable =>
            /\ rendered.csv.columns =
                  <<"entry_id", "patient_id", "temp", "symptoms", "notes", "created_at">>
            /\ rendered.table.columns = <<"created_at", "temp", "symptoms", "notes">>
            /\ Len(rendered.csv.rows) = Cardinality(SelectedEntries)
            /\ Len(rendered.table.rows) = Cardinality(SelectedEntries)
            /\ \A i \in SelectedEntries :
                  \E k \in DOMAIN rendered.csv.rows :
                      rendered.csv.rows[k] =
                          <<entries[i].entry_id, entries[i].patient_id, entries[i].temp,
                            entries[i].symptoms, entries[i].notes, entries[i].created_at>>
            /\ \A k \in DOMAIN rendered.csv.rows :
                  rendered.csv.rows[k][2] = rendered.patient_id

\* A CSV is offered for one patient while an entry of another patient is
\* stored
C8_Witness ==
    /\ rendered.page = "Patient Timeline"
    /\ Len(rendered.csv.rows) >= 1
    /\ Len(rendered.csv.rows) = Cardinality(SelectedEntries)
    /\ \E i \in DOMAIN entries : entries[i].patient_id # rendered.patient_id

\* table' is table with rows added at its end
Extends(table, tableAfter) ==
    /\ Len(tableAfter) >= Len(table)
    /\ \A i \in DOMAIN table : tableAfter[i] = table[i]

\* C9: no stored account, patient or entry is ever changed or removed; a
\* patient registration adds exactly one patient, a check-in submission exactly
\* one entry, and neither touches another table; the runs that only show a page
\* (login, timeline, overview, alert dashboard, logout) leave the three tables
\* as they were.
C9_AppendOnly ==
    [][ /\ Extends(hospitals, hospitals')
        /\ Extends(patients, patients')
        /\ Extends(entries, entries')
        /\ (rendered'.page = "Patient Registration" /\ rendered'.clicked = "Submit") =>
              /\ Len(patients') = Len(patients) + 1
              /\ entries' = entries /\ hospitals' = hospitals
        /\ (rendered'.page = "Symptom Check-in" /\ rendered'.clicked = "Submit") =>
              /\ Len(entries') = Len(entries) + 1
              /\ patients' = patients /\ hospitals' = hospitals
        /\ rendered'.clicked = "reg_btn" =>
              /\ Len(hospitals') <= Len(hospitals) + 1
              /\ patients' = patients /\ entries' = entries
        /\ rendered'.clicked \notin {"Submit", "reg_btn"} =>
              /\ hospitals' = hospitals
              /\ patients' = patients
              /\ entries' = entries
      ]_vars

\* With an account registered, two patients and two entries stored, a page
\* has been shown
C9_Witness ==
    /\ Len(hospitals) = 2
    /\ Len(patients) = 2
    /\ Len(entries) = 2
    /\ rendered.page = "Overview"
    /\ rendered.metrics = <<2, 2>>

\* C10: a session is shown one of the five pages, and inserts a patient or a
\* check-in, only while its own login_success is true; the flag starts false,
\* becomes true only by a successful login of that session, becomes false
\* again only by that session's Logout, and no run of one session changes the
\* flag of another.
C10_PagesBehindOwnLogin ==
    /\ \A s \in Sessions : ~login_success[s]
    /\ [][ /\ rendered'.page \in AuthPages =>
                /\ login_success[rendered'.session]
                /\ login_success'[rendered'.session]
           /\ (patients' # patients \/ entries' # entries) =>
                /\ rendered'.page \in AuthPages
                /\ login_success[rendered'.session]
           /\ \A s \in Sessions :
                /\ (~login_success[s] /\ login_success'[s]) =>
                      /\ rendered'.session = s
                      /\ rendered'.clicked = "login_btn"
                      /\ AccountMatches(rendered'.inputs[1], rendered'.inputs[2])
                /\ (login_success[s] /\ ~login_success'[s]) =>
                      /\ rendered'.session = s
                      /\ rendered'.page = "Logout"
                /\ s # rendered'.session => login_success'[s] = login_success[s]
         ]_vars

\* One session has logged out, with an account registered, while the other
\* stays logged in
C10_Witness ==
    /\ rendered.session = "s2"
    /\ rendered.page = "Logout"
    /\ ~login_success["s2"]
    /\ login_success["s1"]
    /\ Len(hospitals) = 2

====
